---- MODULE Spec2Model ----
(***************************************************************************)
(* Model of social_media_post_generator.py: one Streamlit script run of    *)
(* main() (re-run by the hosting loop on every interaction), the two       *)
(* provider adapters, the copy-button markup and the date formatting.      *)
(*                                                                         *)
(* Text that is only passed around (field values, the formatted date) is a *)
(* TLA+ string.  Text that is taken apart by some step (str.strip on the   *)
(* provider's answer, the browser's parse of the copy button's markup) is  *)
(* a sequence of tokens; the text is the concatenation of its tokens.      *)
(* An f-string is the sequence of its literal and interpolated parts.      *)
(***************************************************************************)
EXTENDS Integers, Sequences, FiniteSets, TLC

VARIABLES
    api_choice,      \* st.sidebar.radio, line 140
    api_key,         \* st.sidebar.text_input, lines 144/147
    event_name,      \* st.text_input, line 169
    date,            \* st.date_input, line 170: [y, m, d]
    venue,           \* st.text_input, line 171
    description,     \* st.text_area, line 172
    generate,        \* st.button, line 177: TRUE only in the run the click caused
    pc,              \* position of the run inside main()
    model,           \* the provider handle bound at lines 157/159
    formatted_date,  \* line 182
    posts,           \* linkedin_post, twitter_post, whatsapp_post bound so far
    outcomes,        \* what the remote endpoint did on each generate call of this run
    trace,           \* provider calls and page elements of this run, in program order
    fault,           \* an exception escaped main()
    runs             \* script runs of the session so far

vars == <<api_choice, api_key, event_name, date, venue, description, generate,
          pc, model, formatted_date, posts, outcomes, trace, fault, runs>>

inputs == <<api_choice, api_key, event_name, date, venue, description, generate>>

\* ---------------------------------------------------------------- bounds
MaxRuns == 2
MinYear == 2025
MaxYear == 2028

\* ------------------------------------------------------------ input sets
Providers == {"Gemini", "ChatGPT"}
Keys == {"", "sk-test"}
Names == {"", " ", "Tech Conference 2025"}
Venues == {"", "Virtual Event"}
Descriptions == {"", "Join us..."}

Leap(y) == (y % 4 = 0 /\ y % 100 # 0) \/ y % 400 = 0

DaysIn(y, m) ==
    IF m = 2 THEN (IF Leap(y) THEN 29 ELSE 28)
    ELSE IF m \in {4, 6, 9, 11} THEN 30 ELSE 31

AllDates ==
    {dt \in [y : MinYear..MaxYear, m : 1..12, d : 1..31] : dt.d <= DaysIn(dt.y, dt.m)}

\* The dates the session's runs pick: a two-digit day and a one-digit day.
RunDates == {[y |-> MinYear, m |-> 1, d |-> 15], [y |-> MinYear, m |-> 3, d |-> 5]}

\* Answers of the remote endpoint (token sequences).
Responses ==
    { <<"Post">>,
      <<" ", "Join", " ", "us", "!", "\n">>,
      <<"\n">>,
      <<"R", "&amp;", "D", " ", "1", "<", "2">>,
      <<"a", "</textarea>", "b">> }

\* str(e) of the exceptions the remote call raises.
ErrMsgs == { <<"401", " ", "API key not valid">>, <<"quota", " ", "</textarea>">> }

Outcomes ==
    [kind : {"ok"}, body : Responses] \cup [kind : {"raise"}, body : ErrMsgs]
        \cup {[kind |-> "malformed", body |-> <<>>]}

Platforms == <<"LinkedIn", "Twitter", "WhatsApp">>
ButtonIds == <<"linkedin", "twitter", "whatsapp">>

\* --------------------------------------------------------------- helpers
Whitespace == {" ", "\n", "\t", "\r"}

RECURSIVE LStrip(_)
LStrip(s) == IF s # <<>> /\ Head(s) \in Whitespace THEN LStrip(Tail(s)) ELSE s

RECURSIVE RStrip(_)
RStrip(s) ==
    IF s # <<>> /\ s[Len(s)] \in Whitespace THEN RStrip(SubSeq(s, 1, Len(s) - 1)) ELSE s

\* str.strip()
strip(s) == RStrip(LStrip(s))

Ev(kind, op, arg, data) == [kind |-> kind, op |-> op, arg |-> arg, data |-> data]

\* ------------------------------------------------- date.strftime, line 182
MonthNames ==
    <<"January", "February", "March", "April", "May", "June", "July",
      "August", "September", "October", "November", "December">>

\* "%-d": the day of the month without padding.
DirectiveNoPad(dt, tok) ==
    CASE tok = "%B" -> MonthNames[dt.m]
      [] tok = "%d" -> ToString(dt.d)
      [] tok = "%Y" -> ToString(dt.y)
      [] OTHER -> tok

\* One element of a strftime format: %B is the full month name (C locale), %d the
\* day of the month as a zero-padded two-digit number, %Y the year with century.
Directive(dt, tok) ==
    CASE tok = "%B" -> MonthNames[dt.m]
      [] tok = "%d" -> (IF dt.d < 10 THEN "0" \o ToString(dt.d) ELSE ToString(dt.d))
      [] tok = "%Y" -> ToString(dt.y)
      [] OTHER -> tok

RECURSIVE strftime(_, _)
strftime(dt, fmt) ==
    IF fmt = <<>> THEN "" ELSE Directive(dt, Head(fmt)) \o strftime(dt, Tail(fmt))

\* "%B %d, %Y"
DateFormat == <<"%B", " ", "%d", ", ", "%Y">>

\* The string an f-string's parts make.
RECURSIVE Join(_)
Join(parts) == IF parts = <<>> THEN "" ELSE Head(parts) \o Join(Tail(parts))

\* ------------------------------------------------------ the two adapters
Guidance ==
    ", consider these specific requirements:\n    - LinkedIn: Professional tone, include relevant hashtags, structured format\n    - Twitter: Concise (under 280 characters), engaging, include hashtags\n    - WhatsApp: Casual tone, use emojis, clear formatting with event details\n    \n    Generate only the post content without any explanations."

\* The f-string of lines 59-70.
gemini_prompt(platform, name, dt, desc, ven) ==
    << "Generate a ", platform, " post for an event with the following details:\n    ",
       "Event Name: ", name, "\n    ",
       "Date: ", dt, "\n    ",
       "Venue: ", ven, "\n    ",
       "Description: ", desc, "\n    \n    For ", platform, Guidance >>

\* A prompt that leaves the venue line out.
chatgpt_prompt_novenue(platform, name, dt, desc, ven) ==
    << "Generate a ", platform, " post for an event with the following details:\n    ",
       "Event Name: ", name, "\n    ",
       "Date: ", dt, "\n    ",
       "Description: ", desc, "\n    \n    For ", platform, Guidance >>

\* The f-string of lines 80-91.
chatgpt_prompt(platform, name, dt, desc, ven) ==
    << "Generate a ", platform, " post for an event with the following details:\n    ",
       "Event Name: ", name, "\n    ",
       "Date: ", dt, "\n    ",
       "Venue: ", ven, "\n    ",
       "Description: ", desc, "\n    \n    For ", platform, Guidance >>

ErrPrefix == <<"Error generating post: ">>

Returned(calls, text) == [calls |-> calls, raised |-> FALSE, value |-> text]
Raised(calls, msg) == [calls |-> calls, raised |-> TRUE, value |-> msg]

\* Lines 73-74: model.generate_content(prompt), then response.text.strip().
\* A handle that is no Gemini model has no generate_content; a blocked or empty
\* response makes response.text raise.
gemini_try(mdl, prompt, outcome) ==
    IF mdl # "Gemini"
    THEN Raised(<<>>, <<"'OpenAI' object has no attribute 'generate_content'">>)
    ELSE LET call == <<Ev("remote", "generate_content", mdl, prompt)>>
         IN CASE outcome.kind = "ok" -> Returned(call, strip(outcome.body))
              [] outcome.kind = "raise" -> Raised(call, outcome.body)
              [] OTHER -> Raised(call, <<"response.text requires a valid Part">>)

\* Lines 94-98: client.chat.completions.create(...), then
\* response.choices[0].message.content.strip(); content may be None.
chatgpt_try(client, prompt, outcome) ==
    IF client # "ChatGPT"
    THEN Raised(<<>>, <<"'GenerativeModel' object has no attribute 'chat'">>)
    ELSE LET call == <<Ev("remote", "chat.completions.create", client, prompt)>>
         IN CASE outcome.kind = "ok" -> Returned(call, strip(outcome.body))
              [] outcome.kind = "raise" -> Raised(call, outcome.body)
              [] OTHER -> Raised(call, <<"'NoneType' object has no attribute 'strip'">>)

\* The adapter without its except clause.
generate_post_with_gemini_noexcept(mdl, platform, name, dt, desc, ven, outcome) ==
    gemini_try(mdl, gemini_prompt(platform, name, dt, desc, ven), outcome)

\* The adapter calling the endpoint a second time when the first call raises.
generate_post_with_gemini_retry(mdl, platform, name, dt, desc, ven, outcome) ==
    LET r == gemini_try(mdl, gemini_prompt(platform, name, dt, desc, ven), outcome)
    IN IF r.raised THEN Returned(r.calls \o r.calls, ErrPrefix \o r.value) ELSE r

generate_post_with_gemini(mdl, platform, name, dt, desc, ven, outcome) ==
    LET r == gemini_try(mdl, gemini_prompt(platform, name, dt, desc, ven), outcome)
    IN IF r.raised THEN Returned(r.calls, ErrPrefix \o r.value) ELSE r

generate_post_with_chatgpt(client, platform, name, dt, desc, ven, outcome) ==
    LET r == chatgpt_try(client, chatgpt_prompt(platform, name, dt, desc, ven), outcome)
    IN IF r.raised THEN Returned(r.calls, ErrPrefix \o r.value) ELSE r

\* ------------------------------------------------------- the copy button
TextareaOpen(button_id) ==
    "<textarea id=\"textToCopy_" \o button_id \o "\" style=\"position: absolute; top: -9999px;\">"

\* Lines 9-45: the f-string, `text` interpolated as it is between the textarea tags.
create_copy_button(text, button_id) ==
    << "<div style=\"position: relative; margin-bottom: 15px;\">",
       "<button onclick=\"copyText_" \o button_id \o "()\">",
       "<span>Copy</span>", "</button>",
       TextareaOpen(button_id) >>
    \o text \o
    << "</textarea>",
       "<script>function copyText_" \o button_id \o "() {...}</script>",
       "</div>" >>

\* A character reference, as the browser's tokenizer reads it in a textarea.
Decode(tok) ==
    CASE tok = "&amp;" -> "&"
      [] tok = "&lt;" -> "<"
      [] tok = "&gt;" -> ">"
      [] OTHER -> tok

\* The tokens from position i up to the first end tag, character references decoded.
RECURSIVE UntilEndTag(_, _)
UntilEndTag(doc, i) ==
    IF i > Len(doc) \/ doc[i] = "</textarea>" THEN <<>>
    ELSE <<Decode(doc[i])>> \o UntilEndTag(doc, i + 1)

\* What copyText_<id>() copies (lines 31-33): the value of the element
\* textToCopy_<id> of the document the browser parsed from the markup.
CopiedText(doc, button_id) ==
    LET opens == {i \in 1..Len(doc) : doc[i] = TextareaOpen(button_id)}
    IN IF opens = {} THEN <<>>
       ELSE UntilEndTag(doc, (CHOOSE i \in opens : \A j \in opens : i <= j) + 1)

\* ------------------------------------------------------------------ main
Ui(op, arg, data) == Ev("ui", op, arg, data)

\* Lines 188-195 (and 203-210, 218-225) with description and venue exchanged.
call_site_swapped(choice, mdl, platform, name, dt, desc, ven, outcome) ==
    IF choice = "Gemini"
    THEN generate_post_with_gemini(mdl, platform, name, dt, ven, desc, outcome)
    ELSE generate_post_with_chatgpt(mdl, platform, name, dt, ven, desc, outcome)

\* Lines 188-195 (and 203-210, 218-225): the adapter the selected service names,
\* the arguments in the order the call sites pass them.
call_site(choice, mdl, platform, name, dt, desc, ven, outcome) ==
    IF choice = "Gemini"
    THEN generate_post_with_gemini(mdl, platform, name, dt, desc, ven, outcome)
    ELSE generate_post_with_chatgpt(mdl, platform, name, dt, desc, ven, outcome)

\* Python truth of a widget value: a str is true unless it is empty, a date always.
Truthy(v) == v # ""

\* The gate without the button.
GateOpenNoClick == Truthy(event_name) /\ Truthy(venue) /\ Truthy(description)

\* Line 180: all([event_name, date, venue, description]) and generate.
\* date is a datetime.date, which is always true.
GateOpen == Truthy(event_name) /\ Truthy(venue) /\ Truthy(description) /\ generate

\* The widgets' values at the start of a run.
ReadInputs ==
    /\ api_choice' \in Providers
    /\ api_key' \in Keys
    /\ event_name' \in Names
    /\ date' \in RunDates
    /\ venue' \in Venues
    /\ description' \in Descriptions
    /\ generate' \in BOOLEAN

Fresh ==
    /\ pc = "key"
    /\ model = "none"
    /\ formatted_date = ""
    /\ posts = <<>>
    /\ outcomes = <<>>
    /\ trace = <<>>
    /\ fault = FALSE

Init ==
    /\ api_choice \in Providers
    /\ api_key \in Keys
    /\ event_name \in Names
    /\ date \in RunDates
    /\ venue \in Venues
    /\ description \in Descriptions
    /\ generate \in BOOLEAN
    /\ Fresh
    /\ runs = 1

\* The key check without its return.
CheckKeyNoReturn ==
    /\ pc = "key"
    /\ trace' = IF ~Truthy(api_key)
                THEN trace \o
                   << Ui("sidebar.warning", "",
                         <<"Please enter your ", api_choice, " API key to continue">>),
                      Ui("info", "",
                         <<"Enter your ", api_choice, " API key in the sidebar to get started">>) >>
                ELSE trace
    /\ pc' = "setup"
    /\ UNCHANGED <<inputs, model, formatted_date, posts, outcomes, fault, runs>>

\* Lines 150-153: without a key, the two hints and return.
CheckKey ==
    /\ pc = "key"
    /\ IF ~Truthy(api_key)
       THEN /\ trace' = trace \o
                   << Ui("sidebar.warning", "",
                         <<"Please enter your ", api_choice, " API key to continue">>),
                      Ui("info", "",
                         <<"Enter your ", api_choice, " API key in the sidebar to get started">>) >>
            /\ pc' = "done"
       ELSE /\ trace' = trace
            /\ pc' = "setup"
    /\ UNCHANGED <<inputs, model, formatted_date, posts, outcomes, fault, runs>>

\* Lines 155-159: setup_gemini / setup_chatgpt returns the handle.
SetupOk ==
    /\ pc = "setup"
    /\ trace' = Append(trace, Ev("remote", "setup", api_choice, <<api_key>>))
    /\ model' = api_choice
    /\ pc' = "form"
    /\ UNCHANGED <<inputs, formatted_date, posts, outcomes, fault, runs>>

\* The failed setup without its return: the message is shown and main goes on.
SetupFailContinue ==
    /\ pc = "setup"
    /\ \E msg \in ErrMsgs :
          trace' = trace \o
              << Ev("remote", "setup", api_choice, <<api_key>>),
                 Ui("error", "", <<"Error initializing ", api_choice, ": ">> \o msg) >>
    /\ model' = api_choice
    /\ pc' = "form"
    /\ UNCHANGED <<inputs, formatted_date, posts, outcomes, fault, runs>>

\* Lines 155-162: the setup raises; the message is shown and main returns.
SetupFail ==
    /\ pc = "setup"
    /\ \E msg \in ErrMsgs :
          trace' = trace \o
              << Ev("remote", "setup", api_choice, <<api_key>>),
                 Ui("error", "", <<"Error initializing ", api_choice, ": ">> \o msg) >>
    /\ pc' = "done"
    /\ UNCHANGED <<inputs, model, formatted_date, posts, outcomes, fault, runs>>

\* Lines 180-182: the gate is open; the date is formatted.
StartGeneration ==
    /\ pc = "form"
    /\ GateOpen
    /\ formatted_date' = strftime(date, DateFormat)
    /\ pc' = "call"
    /\ UNCHANGED <<inputs, model, posts, outcomes, trace, fault, runs>>

\* The else branch showing the hint whether or not the button was clicked.
ShowExampleAlwaysHint ==
    /\ pc = "form"
    /\ ~GateOpen
    /\ trace' = trace
          \o <<Ui("info", "", <<"Fill in all the event details and click 'Generate Posts'">>),
               Ui("markdown", "", <<"### Example Input">>),
               Ui("markdown", "", <<"**Event Name:** Tech Conference 2025 ...">>)>>
    /\ pc' = "done"
    /\ UNCHANGED <<inputs, model, formatted_date, posts, outcomes, fault, runs>>

\* Lines 230-245: the gate is closed; the hint unless the button was clicked, then
\* the example.
ShowExample ==
    /\ pc = "form"
    /\ ~GateOpen
    /\ trace' = trace
          \o (IF ~generate
              THEN <<Ui("info", "", <<"Fill in all the event details and click 'Generate Posts'">>)>>
              ELSE <<>>)
          \o <<Ui("markdown", "", <<"### Example Input">>),
               Ui("markdown", "", <<"**Event Name:** Tech Conference 2025 ...">>)>>
    /\ pc' = "done"
    /\ UNCHANGED <<inputs, model, formatted_date, posts, outcomes, fault, runs>>

\* Lines 187-195, 202-210, 217-225: the subheader, then the adapter for the next
\* platform; the remote endpoint answers, raises or answers without text.
CallAdapter ==
    /\ pc = "call"
    /\ \E outcome \in Outcomes :
          LET i == Len(posts) + 1
              r == call_site(api_choice, model, Platforms[i], event_name,
                             formatted_date, description, venue, outcome)
          IN /\ outcomes' = Append(outcomes, outcome)
             /\ trace' = Append(trace, Ui("subheader", Platforms[i], <<Platforms[i], " Post">>))
                             \o r.calls
             /\ IF r.raised
                THEN /\ fault' = TRUE
                     /\ pc' = "crashed"
                     /\ posts' = posts
                ELSE /\ fault' = fault
                     /\ pc' = "render"
                     /\ posts' = Append(posts, r.value)
    /\ UNCHANGED <<inputs, model, formatted_date, runs>>

\* Lines 196-199, 211-214, 226-229: the copy button, then the post in its panel.
RenderResult ==
    /\ pc = "render"
    /\ LET i == Len(posts)
       IN trace' = trace \o
              << Ui("html", Platforms[i], create_copy_button(posts[i], ButtonIds[i])),
                 Ui("markdown", "", <<"<div class=\"output-container\">">>),
                 Ui("markdown", Platforms[i], posts[i]),
                 Ui("markdown", "", <<"</div>">>) >>
    /\ pc' = IF Len(posts) < Len(Platforms) THEN "call" ELSE "done"
    /\ UNCHANGED <<inputs, model, formatted_date, posts, outcomes, fault, runs>>

\* The hosting loop runs the script again on the next interaction: a fresh page,
\* the widgets' current values, no name of the previous run bound.
Rerun ==
    /\ pc = "done"
    /\ runs < MaxRuns
    /\ runs' = runs + 1
    /\ ReadInputs
    /\ pc' = "key"
    /\ model' = "none"
    /\ formatted_date' = ""
    /\ posts' = <<>>
    /\ outcomes' = <<>>
    /\ trace' = <<>>
    /\ fault' = FALSE

Next ==
    \/ CheckKey
    \/ SetupOk
    \/ SetupFail
    \/ StartGeneration
    \/ ShowExample
    \/ CallAdapter
    \/ RenderResult
    \/ Rerun

Spec == Init /\ [][Next]_vars

\* A run that starts at the gate with the form filled in and the button clicked,
\* for every date the picker offers: the key check and the setup are behind it.
InitDate ==
    /\ api_choice \in Providers
    /\ api_key = "sk-test"
    /\ event_name = "Tech Conference 2025"
    /\ date \in AllDates
    /\ venue = "Virtual Event"
    /\ description = "Join us..."
    /\ generate = TRUE
    /\ pc = "form"
    /\ model = api_choice
    /\ formatted_date = ""
    /\ posts = <<>>
    /\ outcomes = <<>>
    /\ trace = <<Ev("remote", "setup", api_choice, <<api_key>>)>>
    /\ fault = FALSE
    /\ runs = 1

NextDate == StartGeneration

SpecDate == InitDate /\ [][NextDate]_vars

\* =================================================================== claims
IsGenerate(e) == e.kind = "remote" /\ e.op # "setup"
GenCalls == SelectSeq(trace, IsGenerate)
IsHtml(e) == e.kind = "ui" /\ e.op = "html"
Htmls == SelectSeq(trace, IsHtml)
IsShownPost(e) == e.kind = "ui" /\ e.op = "markdown" /\ e.arg # ""
ShownPosts == SelectSeq(trace, IsShownPost)
Shown(op) == \E i \in DOMAIN trace : trace[i].kind = "ui" /\ trace[i].op = op
HasExample ==
    \E i \in DOMAIN trace : trace[i] = Ui("markdown", "", <<"### Example Input">>)
NoResults ==
    /\ Htmls = <<>>
    /\ ShownPosts = <<>>
    /\ ~Shown("subheader")
FieldsFilled == event_name # "" /\ venue # "" /\ description # ""
After(prompt, label, value) ==
    \E j \in 1..(Len(prompt) - 1) : prompt[j] = label /\ prompt[j + 1] = value
Count(P(_), upto) == Cardinality({i \in 1..upto : P(trace[i])})

\* C1: in a run whose API key is empty no remote call of any kind is made (no
\* provider setup, no generate call), and once the run has ended the hints asking
\* for the key are on the page.
C1_NoKeyNoRemoteCall ==
    api_key = "" =>
        /\ \A i \in DOMAIN trace : trace[i].kind # "remote"
        /\ pc \in {"key", "done"}
        /\ pc = "done" =>
              /\ Shown("sidebar.warning")
              /\ \E i \in DOMAIN trace :
                    /\ trace[i].op = "info"
                    /\ trace[i].data =
                          <<"Enter your ", api_choice, " API key in the sidebar to get started">>

C1_Witness == api_key = "" /\ pc = "done" /\ Shown("sidebar.warning")

\* C2: a generate call that raises (or answers without text) makes the adapter
\* return "Error generating post: <message>", which is what is shown for that
\* platform; every platform's result depends on its own call alone; a finished
\* generation has issued all three calls; no exception ever escapes main.
C2_FailureIsolated ==
    /\ fault = FALSE
    /\ pc # "crashed"
    /\ Len(posts) <= Len(outcomes)
    /\ \A i \in DOMAIN posts :
          /\ outcomes[i].kind = "raise" => posts[i] = <<"Error generating post: ">> \o outcomes[i].body
          /\ outcomes[i].kind = "malformed" =>
                Len(posts[i]) = 2 /\ posts[i][1] = "Error generating post: "
          /\ outcomes[i].kind = "ok" => posts[i] = strip(outcomes[i].body)
    /\ \A i \in DOMAIN ShownPosts : ShownPosts[i].data = posts[i]
    /\ (pc = "done" /\ formatted_date # "") =>
          Len(GenCalls) = 3 /\ Len(posts) = 3 /\ Len(ShownPosts) = 3

C2_Witness ==
    /\ pc = "done"
    /\ Len(posts) = 3
    /\ api_choice = "Gemini"
    /\ outcomes[1].kind = "ok"
    /\ outcomes[2].kind = "raise"
    /\ outcomes[3].kind = "ok"
    /\ ShownPosts[2].data = <<"Error generating post: ">> \o outcomes[2].body

\* C3: a generate call is issued in a run only if in that run the key is
\* non-empty, the event name, venue and description are non-empty (the date always
\* has a value) and the button was clicked.
C3_GenerateOnlyWhenGated ==
    (GenCalls # <<>> \/ outcomes # <<>>) =>
        api_key # "" /\ FieldsFilled /\ date \in AllDates /\ generate

C3_Witness == GenCalls # <<>> /\ generate /\ runs = 2

\* C4: one generation issues exactly three generate calls, for LinkedIn, Twitter
\* and WhatsApp in that order, one per platform whether it fails or not, and the
\* result of a platform is on the page before the next platform's call.
C4_ThreeCallsInOrder ==
    /\ Len(GenCalls) <= 3
    /\ Len(GenCalls) = Len(outcomes)
    /\ \A k \in DOMAIN GenCalls : GenCalls[k].data[2] = Platforms[k]
    /\ \A i \in DOMAIN trace :
          IsGenerate(trace[i]) =>
              /\ Count(IsHtml, i) = Count(IsGenerate, i) - 1
              /\ Count(IsShownPost, i) = Count(IsGenerate, i) - 1
    /\ \A k \in DOMAIN ShownPosts : ShownPosts[k].arg = Platforms[k]
    /\ (pc = "done" /\ formatted_date # "") => Len(GenCalls) = 3

C4_Witness ==
    /\ pc = "done"
    /\ Len(GenCalls) = 3
    /\ outcomes[1].kind = "raise"
    /\ outcomes[2].kind = "malformed"
    /\ outcomes[3].kind = "ok"

\* C5: every prompt sent, by either adapter, holds the platform name, and the
\* event name, the formatted date, the venue and the description each right after
\* its own label.
C5_PromptEmbedsDetails ==
    \A k \in DOMAIN GenCalls :
        LET prompt == GenCalls[k].data
        IN /\ \E j \in DOMAIN prompt : prompt[j] = Platforms[k]
           /\ After(prompt, "Event Name: ", event_name)
           /\ After(prompt, "Date: ", formatted_date)
           /\ After(prompt, "Venue: ", venue)
           /\ After(prompt, "Description: ", description)
           /\ formatted_date = strftime(date, DateFormat)

C5_Witness ==
    /\ Len(GenCalls) = 3
    /\ api_choice = "ChatGPT"
    /\ After(GenCalls[3].data, "Venue: ", "Virtual Event")
    /\ After(GenCalls[3].data, "Description: ", "Join us...")

\* C6: the text the copy control of a platform copies equals the result text shown
\* for that platform, whatever the text is.
C6_CopyEqualsShown ==
    \A k \in DOMAIN Htmls : CopiedText(Htmls[k].data, ButtonIds[k]) = posts[k]

\* C7: when the provider setup raises, the failure is shown as an error message
\* and the run ends there: no generate call, no platform result, for either
\* service.
C7_SetupFailureBlocks ==
    Shown("error") =>
        /\ pc = "done"
        /\ GenCalls = <<>>
        /\ outcomes = <<>>
        /\ posts = <<>>
        /\ NoResults

C7_Witness == Shown("error") /\ api_choice = "ChatGPT" /\ FieldsFilled /\ generate

\* C8 as stated: a finished run whose preconditions for generation are not met
\* (key empty, a field empty, or the button not clicked) shows the guidance and the
\* example, and no platform result.
C8_GuidanceAndExampleAlways ==
    (pc = "done" /\ (api_key = "" \/ ~FieldsFilled \/ ~generate)) =>
        /\ Shown("info")
        /\ HasExample
        /\ NoResults

\* C8 amended: a finished run whose preconditions are not met shows no platform
\* result; with an empty key it shows the hints asking for the key and not the
\* example; with a key and a provider set up it shows the example, and the hint
\* to fill in the form exactly when the button was not clicked; with a key and a
\* failed setup it shows the error and neither hint nor example.
C8_Amended ==
    (pc = "done" /\ (api_key = "" \/ ~FieldsFilled \/ ~generate)) =>
        /\ NoResults
        /\ api_key = "" => Shown("info") /\ Shown("sidebar.warning") /\ ~HasExample
        /\ (api_key # "" /\ model # "none") =>
              HasExample /\ (Shown("info") <=> ~generate)
        /\ (api_key # "" /\ model = "none") =>
              Shown("error") /\ ~Shown("info") /\ ~HasExample

C8_Witness ==
    /\ pc = "done"
    /\ api_key # ""
    /\ model # "none"
    /\ generate
    /\ ~FieldsFilled
    /\ HasExample
    /\ ~Shown("info")

TwoDigits(n) == ToString(n \div 10) \o ToString(n % 10)

\* C9 as stated: the formatted date is "<Month name> <day>, <year>", the day being
\* the day's number.
C9_DayAsNumber ==
    formatted_date # "" =>
        formatted_date = MonthNames[date.m] \o " " \o ToString(date.d) \o ", " \o ToString(date.y)

\* C9 amended: the formatted date is "<Month name> <dd>, <year>" with the full
\* English month name and the day as two digits, padded with a zero below 10;
\* 2025-01-15 gives "January 15, 2025" and 2025-01-05 gives "January 05, 2025".
C9_Amended ==
    /\ formatted_date # "" =>
          formatted_date = MonthNames[date.m] \o " " \o TwoDigits(date.d) \o ", " \o ToString(date.y)
    /\ (formatted_date # "" /\ date = [y |-> 2025, m |-> 1, d |-> 15]) =>
          formatted_date = "January 15, 2025"
    /\ (formatted_date # "" /\ date = [y |-> 2025, m |-> 1, d |-> 5]) =>
          formatted_date = "January 05, 2025"
    /\ (formatted_date # "" /\ date.m = 12) =>
          formatted_date = "December " \o TwoDigits(date.d) \o ", " \o ToString(date.y)

C9_Witness ==
    /\ date = [y |-> MinYear, m |-> 9, d |-> 5]
    /\ formatted_date = "September 05, " \o ToString(MinYear)

\* C10: the two adapters build the same prompt string from the same arguments;
\* all generate calls of a run go to the service selected in that run, and their
\* prompts differ in the platform name only.
C10_ProvidersInterchangeable ==
    /\ \A pl \in {Platforms[k] : k \in DOMAIN Platforms} :
          Join(gemini_prompt(pl, event_name, formatted_date, description, venue))
              = Join(chatgpt_prompt(pl, event_name, formatted_date, description, venue))
    /\ \A k \in DOMAIN GenCalls :
          /\ GenCalls[k].arg = api_choice
          /\ GenCalls[k].op =
                (IF api_choice = "Gemini" THEN "generate_content" ELSE "chat.completions.create")
    /\ \A j, k \in DOMAIN GenCalls :
          /\ Len(GenCalls[j].data) = Len(GenCalls[k].data)
          /\ \A n \in DOMAIN GenCalls[j].data :
                GenCalls[j].data[n] # GenCalls[k].data[n] =>
                    GenCalls[j].data[n] = Platforms[j] /\ GenCalls[k].data[n] = Platforms[k]

C10_Witness ==
    /\ pc = "done"
    /\ Len(GenCalls) = 3
    /\ api_choice = "ChatGPT"
    /\ GenCalls[1].data # GenCalls[2].data

====
